---- MODULE Spec2Model ----
(***************************************************************************)
(* Distance & Route helpers (apis/distance_and_route/distance_and_route.js) *)
(*                                                                         *)
(* One behaviour is one call of a public operation: calculateDistance,     *)
(* getEstimatedTime, getDistanceMatrix or optimizeRoute.  An action is the  *)
(* code that runs between two awaits: the synchronous start of the call up  *)
(* to its first fetch, and the continuation that handles one response.      *)
(* The remote providers are the environment: every response a fetch can     *)
(* settle with is drawn from a small set.                                   *)
(*                                                                         *)
(* Numbers that are distances are fixed-point, in tenths of a metre, so     *)
(* that a rounded and an unrounded Haversine value stay distinct.           *)
(***************************************************************************)
EXTENDS Integers, Sequences, FiniteSets, TLC

VARIABLES
    op,        \* the public operation that was called
    points,    \* its point arguments as the caller passed them (a, b or points[])
    options,   \* its options argument
    pc,        \* where the call is suspended: "start", an awaited provider, "done"
    trace,     \* outbound requests and their outcomes, in order (observer)
    response,  \* what the last awaited fetch settled with (observer)
    result,    \* how the returned promise settled
    peer       \* a second call under way at the same time, suspended; or undefined

vars == <<op, points, options, pc, trace, response, result, peer>>

-----------------------------------------------------------------------------
(* JavaScript values *)

Undefined == [t |-> "undefined"]
Null == [t |-> "null"]
NaN == [t |-> "NaN"]
Infinity == [t |-> "Infinity"]
Num(n) == [t |-> "number", v |-> n]
Str(s) == [t |-> "string", v |-> s]
Bool(b) == [t |-> "boolean", v |-> b]
\* an array that the code may find null or missing instead
Arr(items) == [t |-> "array", items |-> items]

\* whether obj.name is defined; and obj.name, undefined when it is missing
Has(obj, name) == name \in DOMAIN obj
Field(obj, name) == IF Has(obj, name) THEN obj[name] ELSE Undefined

\* Number(x) on the values the model passes: a number is itself, Infinity
\* included, null is 0, undefined and a non-numeric string are NaN
Number(x) ==
    CASE x.t = "number" -> x
      [] x.t = "Infinity" -> x
      [] x.t = "null" -> Num(0)
      [] OTHER -> NaN

\* truthiness of a value used as a condition or on the left of ||
Truthy(x) ==
    CASE x.t = "undefined" -> FALSE
      [] x.t = "null" -> FALSE
      [] x.t = "NaN" -> FALSE
      [] x.t = "number" -> x.v # 0
      [] x.t = "boolean" -> x.v
      [] OTHER -> TRUE

\* Math.round on a fixed-point number of tenths (the model's are >= 0)
MathRound(x) == ((x + 5) \div 10) * 10

-----------------------------------------------------------------------------
(* Points *)

LatLng(lat, lng) ==
    [t |-> "object", lat |-> lat, lng |-> lng, latitude |-> Undefined, longitude |-> Undefined]
Geo(lat, lng) ==
    [t |-> "object", lat |-> Undefined, lng |-> Undefined, latitude |-> lat, longitude |-> lng]
Pair(e0, e1) == [t |-> "array", e0 |-> e0, e1 |-> e1]

\* a faulty reading of the array pair: [lng, lat]
_toPointLngLat(p) ==
    IF ~(p.t \in {"object", "array"}) THEN Null
    ELSE IF p.t = "array" THEN [lat |-> Number(p.e1), lng |-> Number(p.e0)]
    ELSE IF p.lat # Undefined /\ p.lng # Undefined
         THEN [lat |-> Number(p.lat), lng |-> Number(p.lng)]
    ELSE IF p.latitude # Undefined /\ p.longitude # Undefined
         THEN [lat |-> Number(p.latitude), lng |-> Number(p.longitude)]
    ELSE Null

_toPoint(p) ==
    IF ~(p.t \in {"object", "array"}) THEN Null
    ELSE IF p.t = "array" THEN [lat |-> Number(p.e0), lng |-> Number(p.e1)]
    ELSE IF p.lat # Undefined /\ p.lng # Undefined
         THEN [lat |-> Number(p.lat), lng |-> Number(p.lng)]
    ELSE IF p.latitude # Undefined /\ p.longitude # Undefined
         THEN [lat |-> Number(p.latitude), lng |-> Number(p.longitude)]
    ELSE Null

\* _validatePoint throws (threw) or returns the canonical point (pt)
_validatePoint(p) ==
    LET pt == _toPoint(p) IN
    IF pt = Null \/ pt.lat = NaN \/ pt.lng = NaN
    THEN [threw |-> TRUE, pt |-> Null]
    ELSE [threw |-> FALSE, pt |-> pt]

\* a faulty formula: h takes Math.cos(phi1) * Math.cos(phi1), the latitude of the
\* first point twice: 157255.36937855952 m from (0,1) to (1,0) and
\* 157243.39384940674 m back, 10119708.80791654 m from (0,1) to (91,0) and
\* 10118738.620250542 m back
GreatCircleFirstLatitude(lat1, lat2, dLat, dLng) ==
    CASE dLat = 0 /\ dLng = 0 -> 0
      [] lat1 = 0 /\ lat2 = 0 /\ dLat = 0 /\ dLng \in {-1, 1} -> 1111949
      [] lat1 = 0 /\ lat2 = 1 /\ dLat = 1 /\ dLng = 0 -> 1111949
      [] lat1 = 1 /\ lat2 = 0 /\ dLat = -1 /\ dLng = 0 -> 1111949
      [] lat1 = 0 /\ lat2 = 1 /\ dLat = 1 /\ dLng = -1 -> 1572553
      [] lat1 = 1 /\ lat2 = 0 /\ dLat = -1 /\ dLng = 1 -> 1572433
      [] lat1 = 0 /\ lat2 = 91 /\ dLat = 91 /\ dLng = 0 -> 101187383
      [] lat1 = 91 /\ lat2 = 0 /\ dLat = -91 /\ dLng = 0 -> 101187383
      [] lat1 = 0 /\ lat2 = 91 /\ dLat = 91 /\ dLng = -1 -> 101197088
      [] lat1 = 91 /\ lat2 = 0 /\ dLat = -91 /\ dLng = 1 -> 101187386
      [] lat1 = 1 /\ lat2 = 91 /\ dLat = 90 /\ dLng = 0 -> 100075433
      [] lat1 = 91 /\ lat2 = 1 /\ dLat = -90 /\ dLng = 0 -> 100075433

\* R * c of _haversine for the latitudes and differences of the model's grid
\* (degrees), in tenths of a metre, as IEEE double arithmetic computes it:
\* 111194.92664455874 m for one degree along the equator or a meridian,
\* 157249.38127194397 m between (0,1) and (1,0); and from latitude 91, which
\* _validatePoint lets through: 10118738.324654846 m to (0,0),
\* 10118721.387409495 m to (0,1), 10007543.398010286 m to (1,0)
GreatCircle(lat1, lat2, dLat, dLng) ==
    CASE dLat = 0 /\ dLng = 0 -> 0
      [] lat1 = 0 /\ lat2 = 0 /\ dLat = 0 /\ dLng \in {-1, 1} -> 1111949
      [] lat1 = 0 /\ lat2 = 1 /\ dLat = 1 /\ dLng = 0 -> 1111949
      [] lat1 = 1 /\ lat2 = 0 /\ dLat = -1 /\ dLng = 0 -> 1111949
      [] lat1 = 0 /\ lat2 = 1 /\ dLat = 1 /\ dLng = -1 -> 1572493
      [] lat1 = 1 /\ lat2 = 0 /\ dLat = -1 /\ dLng = 1 -> 1572493
      [] lat1 = 0 /\ lat2 = 91 /\ dLat = 91 /\ dLng = 0 -> 101187383
      [] lat1 = 91 /\ lat2 = 0 /\ dLat = -91 /\ dLng = 0 -> 101187383
      [] lat1 = 0 /\ lat2 = 91 /\ dLat = 91 /\ dLng = -1 -> 101187213
      [] lat1 = 91 /\ lat2 = 0 /\ dLat = -91 /\ dLng = 1 -> 101187213
      [] lat1 = 1 /\ lat2 = 91 /\ dLat = 90 /\ dLng = 0 -> 100075433
      [] lat1 = 91 /\ lat2 = 1 /\ dLat = -90 /\ dLng = 0 -> 100075433

_haversine(a, b) ==
    GreatCircle(a.lat.v, b.lat.v, b.lat.v - a.lat.v, b.lng.v - a.lng.v)

\* _haversine on a point with an infinite coordinate: Math.sin and Math.cos of
\* an infinite angle are NaN, and so are h, c and R * c
IsFinite(pt) == pt.lat.t = "number" /\ pt.lng.t = "number"
HaversineIsNaN(a, b) == ~IsFinite(a) \/ ~IsFinite(b)

-----------------------------------------------------------------------------
(* Options *)

Provider(o) == IF Truthy(o.provider) THEN o.provider.v ELSE "auto"
Profile(o) == IF Truthy(o.profile) THEN o.profile.v ELSE "driving"
Roundtrip(o) == IF o.roundtrip # Undefined THEN Truthy(o.roundtrip) ELSE FALSE

\* a faulty selection: Google is chosen by the provider option alone
UsesGoogleAnyKey(o) == Provider(o) \in {"google", "auto"}

UsesGoogle(o) == Provider(o) \in {"google", "auto"} /\ Truthy(o.googleApiKey)
UsesOrs(o) ==
    Provider(o) \in {"ors", "openrouteservice", "auto"} /\ Truthy(o.openRouteServiceApiKey)
\* a faulty selection: OSRM, which needs no key, is tried whatever provider is
\* named
UsesOsrmAlways(o) == Provider(o) \in {"osrm", "auto", "google", "ors", "openrouteservice"}

UsesOsrm(o) == Provider(o) \in {"osrm", "auto"}

-----------------------------------------------------------------------------
(* Observer: the requests a call issues and how each one ended *)

Request(provider, endpoint, profile) ==
    [ev |-> "request", provider |-> provider, endpoint |-> endpoint, profile |-> profile]
Failure(provider) == [ev |-> "failure", provider |-> provider]
NoData(provider) == [ev |-> "nodata", provider |-> provider]
Success(provider) == [ev |-> "success", provider |-> provider]

Resolved(v) == [status |-> "resolved", value |-> v]
Rejected(e) == [status |-> "rejected", error |-> e]
Pending == [status |-> "pending"]

-----------------------------------------------------------------------------
(* The providers (environment).  A well-behaved provider answers with a     *)
(* routed distance, longer than the great circle, and a travel time.        *)

DetourMeters == 40
MetersPerSecond == 20

RoadDistance(a, b) ==
    IF _haversine(a, b) = 0 THEN 0 ELSE MathRound(_haversine(a, b)) + 10 * DetourMeters
RoadDuration(a, b) == RoadDistance(a, b) \div (10 * MetersPerSecond)

\* what _fetchJson can end with instead of a body: fetch rejects, or !res.ok
FetchFailures == {[fetch |-> "network"], [fetch |-> "http"]}
Body(data) == [fetch |-> "ok", data |-> data]

\* Google Distance Matrix for one origin and one destination
GooglePairResponses(A, B) ==
    FetchFailures \cup
    { Body([status |-> "REQUEST_DENIED"]),
      Body([status |-> "OK", rows |-> << >>]),
      Body([status |-> "OK", rows |-> <<[elements |-> <<[status |-> "ZERO_RESULTS"]>>]>>]),
      Body([status |-> "OK", rows |-> <<[elements |->
            <<[status |-> "OK", distance |-> [value |-> Num(RoadDistance(A, B))]]>>]>>]),
      Body([status |-> "OK", rows |-> <<[elements |->
            <<[status |-> "OK", distance |-> [value |-> Num(RoadDistance(A, B))],
               duration |-> [value |-> Num(RoadDuration(A, B))]]>>]>>]) }

\* OpenRouteService matrix for the two locations
OrsPairResponses(A, B) ==
    FetchFailures \cup
    { Body([info |-> "empty"]),
      Body([distances |-> Arr(<< <<Num(0), Num(RoadDistance(A, B))>>,
                                 <<Num(RoadDistance(B, A)), Num(0)>> >>)]),
      Body([distances |-> Arr(<< <<Num(0), Num(RoadDistance(A, B))>>,
                                 <<Num(RoadDistance(B, A)), Num(0)>> >>),
            durations |-> Arr(<< <<Num(0), Num(RoadDuration(A, B))>>,
                                 <<Num(RoadDuration(B, A)), Num(0)>> >>)]) }

\* OSRM route service for the two coordinates
OsrmPairResponses(A, B) ==
    FetchFailures \cup
    { Body([code |-> "NoRoute"]),
      Body([code |-> "Ok", routes |-> << >>]),
      Body([code |-> "Ok", routes |->
            <<[distance |-> Num(RoadDistance(A, B)), duration |-> Num(RoadDuration(A, B))]>>]) }

-----------------------------------------------------------------------------
(* calculateDistance *)

\* a faulty fallback: it estimates a travel time from the straight line
HaversineResultTimed(A, B) ==
    [distance |-> Num(MathRound(_haversine(A, B))),
     duration |-> Num(MathRound(_haversine(A, B)) \div (10 * MetersPerSecond)),
     unit |-> "meters"]

\* the Haversine fallback of calculateDistance: rounded, no duration key
HaversineResult(A, B) == [distance |-> Num(MathRound(_haversine(A, B))), unit |-> "meters"]

\* the Google branch after its await: what the call settles with
CalcGoogle(resp) ==
    IF resp.fetch # "ok" THEN Rejected(resp.fetch)
    ELSE IF resp.data.status # "OK" THEN Rejected("Google API error")
    ELSE LET cell == IF /\ Has(resp.data, "rows") /\ Len(resp.data.rows) > 0
                        /\ Len(resp.data.rows[1].elements) > 0
                     THEN resp.data.rows[1].elements[1] ELSE [info |-> "empty"]
         IN IF ~(Has(cell, "status") /\ cell.status = "OK")
            THEN Rejected("Google element error")
            ELSE Resolved([distance |-> cell.distance.value,
                           duration |-> IF Has(cell, "duration")
                                        THEN cell.duration.value ELSE Undefined,
                           unit |-> "meters"])

\* the OpenRouteService branch once one of its two requests has a body
CalcOrs(data, A, B) ==
    LET d == IF Has(data, "distances") THEN data.distances.items[1][2] ELSE Undefined
        t == IF Has(data, "durations") THEN data.durations.items[1][2] ELSE Undefined
    IN Resolved([distance |-> IF Truthy(d) THEN d ELSE Num(_haversine(A, B)),
                 duration |-> IF Truthy(t) THEN t ELSE Undefined,
                 unit |-> "meters"])

\* the OSRM branch after its await; its catch falls through to Haversine
CalcOsrm(resp, A, B) ==
    IF resp.fetch # "ok" THEN Resolved(HaversineResult(A, B))
    ELSE IF Has(resp.data, "code") /\ resp.data.code # "Ok"
         THEN Resolved(HaversineResult(A, B))
    ELSE IF ~Has(resp.data, "routes") \/ Len(resp.data.routes) = 0
         THEN Resolved(HaversineResult(A, B))
    ELSE Resolved([distance |-> resp.data.routes[1].distance,
                   duration |-> resp.data.routes[1].duration, unit |-> "meters"])

\* getEstimatedTime awaits calculateDistance: res.duration ?? null, or rethrow
getEstimatedTime(outcome) ==
    IF outcome.status = "rejected" THEN outcome
    ELSE LET duration == Field(outcome.value, "duration") IN
         Resolved(IF duration \in {Undefined, Null} THEN Null ELSE duration)

\* how the promise the caller holds settles, given how calculateDistance did
Settle(outcome) == IF op = "getEstimatedTime" THEN getEstimatedTime(outcome) ELSE outcome

CalcOps == {"calculateDistance", "getEstimatedTime"}
PointA == _validatePoint(points[1]).pt
PointB == _validatePoint(points[2]).pt

\* observer: a request ended in failure when the code threw on its response,
\* in nodata when the branch returned without the provider's answer, in
\* success when it returned with it
Outcome(provider, threw, usedProvider) ==
    IF threw THEN Failure(provider)
    ELSE IF ~usedProvider THEN NoData(provider)
    ELSE Success(provider)
OrsGaveDistance(data) == Has(data, "distances") /\ Truthy(data.distances.items[1][2])
OsrmGaveRoute(resp) ==
    /\ resp.fetch = "ok"
    /\ ~(Has(resp.data, "code") /\ resp.data.code # "Ok")
    /\ Has(resp.data, "routes") /\ Len(resp.data.routes) > 0

\* calculateDistance up to its first await (or to its end, when it awaits nothing)
CalcStart ==
    /\ pc = "start" /\ op \in CalcOps
    /\ IF _validatePoint(points[1]).threw \/ _validatePoint(points[2]).threw
       THEN /\ result' = Settle(Rejected("invalid point"))
            /\ pc' = "done"
            /\ UNCHANGED trace
       ELSE IF UsesGoogle(options)
       THEN /\ trace' = Append(trace, Request("google", "distancematrix", "none"))
            /\ pc' = "google"
            /\ UNCHANGED result
       ELSE IF UsesOrs(options)
       THEN /\ trace' = Append(trace, Request("ors", "matrix", "foot-walking"))
            /\ pc' = "ors"
            /\ UNCHANGED result
       ELSE IF UsesOsrm(options)
       THEN /\ trace' = Append(trace, Request("osrm", "route", Profile(options)))
            /\ pc' = "osrm"
            /\ UNCHANGED result
       ELSE /\ result' = Settle(Resolved(HaversineResult(PointA, PointB)))
            /\ pc' = "done"
            /\ UNCHANGED trace
    /\ UNCHANGED <<op, points, options, response, peer>>

CalcGoogleResponse ==
    /\ pc = "google" /\ op \in CalcOps
    /\ \E resp \in GooglePairResponses(PointA, PointB) :
         /\ response' = resp
         /\ result' = Settle(CalcGoogle(resp))
         /\ trace' = Append(trace, Outcome("google", CalcGoogle(resp).status = "rejected", TRUE))
    /\ pc' = "done"
    /\ UNCHANGED <<op, points, options, peer>>

\* a faulty continuation: the second request is also issued when the first was
\* answered without a distance
CalcOrsResponseRetryUnanswered ==
    /\ pc = "ors" /\ op \in CalcOps
    /\ \E resp \in OrsPairResponses(PointA, PointB) :
         /\ response' = resp
         /\ IF resp.fetch # "ok" \/ ~OrsGaveDistance(resp.data)
            THEN /\ trace' = trace \o <<IF resp.fetch # "ok" THEN Failure("ors")
                                        ELSE NoData("ors"),
                                        Request("ors", "matrix", Profile(options))>>
                 /\ pc' = "orsRetry"
                 /\ UNCHANGED result
            ELSE /\ result' = Settle(CalcOrs(resp.data, PointA, PointB))
                 /\ trace' = Append(trace, Outcome("ors", FALSE, OrsGaveDistance(resp.data)))
                 /\ pc' = "done"
    /\ UNCHANGED <<op, points, options, peer>>

\* the foot-walking request: its .catch issues the request with the caller's profile
CalcOrsResponse ==
    /\ pc = "ors" /\ op \in CalcOps
    /\ \E resp \in OrsPairResponses(PointA, PointB) :
         /\ response' = resp
         /\ IF resp.fetch # "ok"
            THEN /\ trace' = trace \o <<Failure("ors"),
                                        Request("ors", "matrix", Profile(options))>>
                 /\ pc' = "orsRetry"
                 /\ UNCHANGED result
            ELSE /\ result' = Settle(CalcOrs(resp.data, PointA, PointB))
                 /\ trace' = Append(trace, Outcome("ors", FALSE, OrsGaveDistance(resp.data)))
                 /\ pc' = "done"
    /\ UNCHANGED <<op, points, options, peer>>

CalcOrsRetryResponse ==
    /\ pc = "orsRetry" /\ op \in CalcOps
    /\ \E resp \in OrsPairResponses(PointA, PointB) :
         /\ response' = resp
         /\ IF resp.fetch # "ok"
            THEN /\ result' = Settle(Rejected(resp.fetch))
                 /\ trace' = Append(trace, Failure("ors"))
            ELSE /\ result' = Settle(CalcOrs(resp.data, PointA, PointB))
                 /\ trace' = Append(trace, Outcome("ors", FALSE, OrsGaveDistance(resp.data)))
    /\ pc' = "done"
    /\ UNCHANGED <<op, points, options, peer>>

CalcOsrmResponse ==
    /\ pc = "osrm" /\ op \in CalcOps
    /\ \E resp \in OsrmPairResponses(PointA, PointB) :
         /\ response' = resp
         /\ result' = Settle(CalcOsrm(resp, PointA, PointB))
         /\ trace' = Append(trace, Outcome("osrm", ~OsrmGaveRoute(resp), TRUE))
    /\ pc' = "done"
    /\ UNCHANGED <<op, points, options, peer>>

-----------------------------------------------------------------------------
(* getDistanceMatrix *)

\* The points argument.  An array is a sequence; an object that holds entries
\* under the keys 0..n-1 without being an array (an array-like, such as
\* {0: p, 1: q, length: 2}) is a function on 0..n-1.
ArrayLike(ps) == [i \in 0..(Len(ps) - 1) |-> ps[i + 1]]
IsArray(ps) == 0 \notin DOMAIN ps

\* !Array.isArray(points) || points.length < 2
TooFew(ps) == ~IsArray(ps) \/ Len(ps) < 2

\* points.map(_validatePoint): the canonical points, when none throws
AnyInvalid(ps) == \E i \in 1..Len(ps) : _validatePoint(ps[i]).threw
Pts == [i \in 1..Len(points) |-> _validatePoint(points[i]).pt]

RoadMatrix(pts) ==
    Arr([i \in 1..Len(pts) |-> [j \in 1..Len(pts) |-> Num(RoadDistance(pts[i], pts[j]))]])
TimeMatrix(pts) ==
    Arr([i \in 1..Len(pts) |-> [j \in 1..Len(pts) |-> Num(RoadDuration(pts[i], pts[j]))]])

\* the cells a Google response can leave unresolved (element status not OK)
UnresolvedCells == { {}, {<<1, 1>>}, {<<1, 2>>} }
GoogleRows(pts, bad) ==
    [i \in 1..Len(pts) |-> [elements |-> [j \in 1..Len(pts) |->
        IF <<i, j>> \in bad THEN [status |-> "NOT_FOUND"]
        ELSE [status |-> "OK", distance |-> [value |-> Num(RoadDistance(pts[i], pts[j]))],
              duration |-> [value |-> Num(RoadDuration(pts[i], pts[j]))]]]]]

GoogleMatrixResponses(pts) ==
    FetchFailures \cup
    { Body([status |-> "OVER_QUERY_LIMIT"]), Body([status |-> "OK"]) } \cup
    { Body([status |-> "OK", rows |-> GoogleRows(pts, bad)]) : bad \in UnresolvedCells }

OrsMatrixResponses(pts) ==
    FetchFailures \cup
    { Body([info |-> "empty"]),
      Body([distances |-> RoadMatrix(pts), durations |-> TimeMatrix(pts)]) }

\* an OSRM server without distance annotations answers with durations only
OsrmTableResponses(pts) ==
    FetchFailures \cup
    { Body([code |-> "NoTable"]),
      Body([code |-> "Ok", durations |-> TimeMatrix(pts)]),
      Body([code |-> "Ok", distances |-> RoadMatrix(pts), durations |-> TimeMatrix(pts)]) }

\* the Google branch after its await: the rows and cells are the response's
MatrixGoogle(resp) ==
    IF resp.fetch # "ok" THEN Rejected(resp.fetch)
    ELSE IF resp.data.status # "OK" THEN Rejected("Google API error")
    ELSE IF ~Has(resp.data, "rows") THEN Rejected("TypeError")
    ELSE LET rows == resp.data.rows
             ok(elem) == Has(elem, "status") /\ elem.status = "OK"
         IN Resolved(
              [distances |-> Arr([r \in 1..Len(rows) |-> [c \in 1..Len(rows[r].elements) |->
                   IF ok(rows[r].elements[c]) THEN rows[r].elements[c].distance.value
                   ELSE Null]]),
               durations |-> Arr([r \in 1..Len(rows) |-> [c \in 1..Len(rows[r].elements) |->
                   IF ok(rows[r].elements[c])
                   THEN IF Has(rows[r].elements[c], "duration")
                        THEN rows[r].elements[c].duration.value ELSE Null
                   ELSE Null]]),
               unit |-> "meters"])

MatrixOrs(resp) ==
    IF resp.fetch # "ok" THEN Rejected(resp.fetch)
    ELSE Resolved([distances |-> IF Has(resp.data, "distances")
                                 THEN resp.data.distances ELSE Null,
                   durations |-> IF Has(resp.data, "durations")
                                 THEN resp.data.durations ELSE Null,
                   unit |-> "meters"])

MatrixOsrm(resp) ==
    IF resp.fetch # "ok" THEN Rejected(resp.fetch)
    ELSE IF Has(resp.data, "code") /\ resp.data.code # "Ok" THEN Rejected("OSRM table error")
    ELSE Resolved([distances |-> IF Has(resp.data, "distances")
                                 THEN resp.data.distances ELSE Null,
                   durations |-> IF Has(resp.data, "durations")
                                 THEN resp.data.durations ELSE Null,
                   unit |-> "meters"])

\* a faulty fallback: the inner loop starts at j = i, so the cells below the
\* diagonal keep the null they were created with
HaversineMatrixUpperOnly(pts) ==
    [distances |-> Arr([i \in 1..Len(pts) |-> [j \in 1..Len(pts) |->
         IF i = j THEN Num(0)
         ELSE IF j < i THEN Null
         ELSE Num(MathRound(_haversine(pts[i], pts[j])))]]),
     durations |-> Arr([i \in 1..Len(pts) |-> [j \in 1..Len(pts) |->
         IF i = j THEN Num(0) ELSE Null]]),
     unit |-> "meters"]

\* a faulty fallback: the loop skips i === j, so the diagonal keeps the null it
\* was created with
HaversineMatrixNoDiagonal(pts) ==
    [distances |-> Arr([i \in 1..Len(pts) |-> [j \in 1..Len(pts) |->
         IF i = j THEN Null ELSE Num(MathRound(_haversine(pts[i], pts[j])))]]),
     durations |-> Arr([i \in 1..Len(pts) |-> [j \in 1..Len(pts) |-> Null]]),
     unit |-> "meters"]

\* the fallback: every cell filled, 0 on the diagonal, rounded Haversine elsewhere
HaversineMatrix(pts) ==
    [distances |-> Arr([i \in 1..Len(pts) |-> [j \in 1..Len(pts) |->
         IF i = j THEN Num(0) ELSE Num(MathRound(_haversine(pts[i], pts[j])))]]),
     durations |-> Arr([i \in 1..Len(pts) |-> [j \in 1..Len(pts) |->
         IF i = j THEN Num(0) ELSE Null]]),
     unit |-> "meters"]

\* a faulty start: the canonical points are written back into the caller's array,
\* points[i] = _validatePoint(points[i])
MatrixStartInPlace ==
    /\ pc = "start" /\ op = "getDistanceMatrix"
    /\ IF TooFew(points)
       THEN /\ result' = Rejected("points must be an array with at least two entries")
            /\ pc' = "done"
            /\ UNCHANGED trace
       ELSE IF AnyInvalid(points)
       THEN /\ result' = Rejected("invalid point")
            /\ pc' = "done"
            /\ UNCHANGED trace
       ELSE IF UsesGoogle(options)
       THEN /\ trace' = Append(trace, Request("google", "distancematrix", "none"))
            /\ pc' = "google"
            /\ UNCHANGED result
       ELSE IF UsesOrs(options)
       THEN /\ trace' = Append(trace, Request("ors", "matrix", Profile(options)))
            /\ pc' = "ors"
            /\ UNCHANGED result
       ELSE IF UsesOsrm(options)
       THEN /\ trace' = Append(trace, Request("osrm", "table", Profile(options)))
            /\ pc' = "osrm"
            /\ UNCHANGED result
       ELSE /\ result' = Resolved(HaversineMatrix(Pts))
            /\ pc' = "done"
            /\ UNCHANGED trace
    /\ points' = IF TooFew(points) \/ AnyInvalid(points) THEN points
                 ELSE [i \in 1..Len(points) |-> LatLng(Pts[i].lat, Pts[i].lng)]
    /\ UNCHANGED <<op, options, response, peer>>

\* getDistanceMatrix up to its first await: points.map builds a new array
MatrixStart ==
    /\ pc = "start" /\ op = "getDistanceMatrix"
    /\ IF TooFew(points)
       THEN /\ result' = Rejected("points must be an array with at least two entries")
            /\ pc' = "done"
            /\ UNCHANGED trace
       ELSE IF AnyInvalid(points)
       THEN /\ result' = Rejected("invalid point")
            /\ pc' = "done"
            /\ UNCHANGED trace
       ELSE IF UsesGoogle(options)
       THEN /\ trace' = Append(trace, Request("google", "distancematrix", "none"))
            /\ pc' = "google"
            /\ UNCHANGED result
       ELSE IF UsesOrs(options)
       THEN /\ trace' = Append(trace, Request("ors", "matrix", Profile(options)))
            /\ pc' = "ors"
            /\ UNCHANGED result
       ELSE IF UsesOsrm(options)
       THEN /\ trace' = Append(trace, Request("osrm", "table", Profile(options)))
            /\ pc' = "osrm"
            /\ UNCHANGED result
       ELSE /\ result' = Resolved(HaversineMatrix(Pts))
            /\ pc' = "done"
            /\ UNCHANGED trace
    /\ UNCHANGED <<op, points, options, response, peer>>

MatrixGoogleResponse ==
    /\ pc = "google" /\ op = "getDistanceMatrix"
    /\ \E resp \in GoogleMatrixResponses(Pts) :
         /\ response' = resp
         /\ result' = MatrixGoogle(resp)
         /\ trace' = Append(trace, Outcome("google", MatrixGoogle(resp).status = "rejected", TRUE))
    /\ pc' = "done"
    /\ UNCHANGED <<op, points, options, peer>>

MatrixOrsResponse ==
    /\ pc = "ors" /\ op = "getDistanceMatrix"
    /\ \E resp \in OrsMatrixResponses(Pts) :
         /\ response' = resp
         /\ result' = MatrixOrs(resp)
         /\ trace' = Append(trace, Outcome("ors", MatrixOrs(resp).status = "rejected",
                                           resp.fetch = "ok" /\ Has(resp.data, "distances")))
    /\ pc' = "done"
    /\ UNCHANGED <<op, points, options, peer>>

MatrixOsrmResponse ==
    /\ pc = "osrm" /\ op = "getDistanceMatrix"
    /\ \E resp \in OsrmTableResponses(Pts) :
         /\ response' = resp
         /\ result' = MatrixOsrm(resp)
         /\ trace' = Append(trace, Outcome("osrm", MatrixOsrm(resp).status = "rejected",
                                           resp.fetch = "ok" /\ Has(resp.data, "distances")))
    /\ pc' = "done"
    /\ UNCHANGED <<op, points, options, peer>>

-----------------------------------------------------------------------------
(* optimizeRoute *)

\* the arrangements of the indices 0..n-1
Perms(n) == { w \in [1..n -> 0..(n - 1)] : \A i, j \in 1..n : w[i] = w[j] => i = j }

RECURSIVE SumLegs(_, _)
SumLegs(legs, field) ==
    IF Len(legs) = 0 THEN 0
    ELSE (IF Has(legs[1], field) THEN legs[1][field].value.v ELSE 0)
         + SumLegs(Tail(legs), field)

\* the legs a provider reports for a tour through stops
TourLegs(stops) ==
    [k \in 1..(Len(stops) - 1) |->
        [distance |-> [value |-> Num(RoadDistance(stops[k], stops[k + 1]))],
         duration |-> [value |-> Num(RoadDuration(stops[k], stops[k + 1]))]]]

\* Google Directions: origin and destination fixed, the waypoints between them
\* reordered; waypoint_order arranges the indices of the waypoints parameter
GoogleTour(pts, w) ==
    IF Len(pts) > 2
    THEN <<pts[1]>> \o [k \in 1..Len(w) |-> pts[w[k] + 2]] \o <<pts[Len(pts)]>>
    ELSE pts

GoogleDirectionsResponses(pts) ==
    FetchFailures \cup
    { Body([status |-> "ZERO_RESULTS"]), Body([status |-> "OK", routes |-> << >>]) } \cup
    { Body([status |-> "OK", routes |->
            <<[waypoint_order |-> w, legs |-> TourLegs(GoogleTour(pts, w))]>>]) :
        w \in Perms(IF Len(pts) > 2 THEN Len(pts) - 2 ELSE 0) }

\* OSRM trip: waypoints[i] describes input coordinate i: its position in the
\* trip (waypoint_index) and the coordinate snapped to the road network
\* ([lon, lat]).  With roundtrip=false the trip runs from the first to the last.
SnapOffsets == {0, 1}
TripPositions(n, roundtrip) ==
    { w \in Perms(n) : ~roundtrip => (w[1] = 0 /\ w[n] = n - 1) }
TripStops(pts, w) == [k \in 1..Len(pts) |-> pts[CHOOSE i \in 1..Len(pts) : w[i] = k - 1]]

OsrmTripResponses(pts, roundtrip) ==
    FetchFailures \cup
    { Body([code |-> "NoTrips"]), Body([code |-> "Ok"]) } \cup
    { Body([code |-> "Ok",
            trips |-> <<[legs |-> TourLegs(TripStops(pts, w)), geometry |-> "polyline",
                         distance |-> Num(SumLegs(TourLegs(TripStops(pts, w)), "distance")),
                         duration |-> Num(SumLegs(TourLegs(TripStops(pts, w)), "duration"))]>>,
            waypoints |-> [i \in 1..Len(pts) |->
                [waypoint_index |-> w[i],
                 location |-> <<Num(pts[i].lng.v + snap), Num(pts[i].lat.v)>>]]]) :
        w \in TripPositions(Len(pts), roundtrip), snap \in SnapOffsets }

\* a faulty Google branch: waypoint_order is read as indexing the whole list,
\* reordered.push(pts[idx])
RouteGoogleNoOffset(resp, pts) ==
    IF resp.fetch # "ok" THEN Rejected(resp.fetch)
    ELSE IF resp.data.status # "OK" THEN Rejected("Google Directions error")
    ELSE LET hasRoute == Has(resp.data, "routes") /\ Len(resp.data.routes) > 0
             route == resp.data.routes[1]
             waypointOrder == IF hasRoute /\ Has(route, "waypoint_order")
                              THEN route.waypoint_order ELSE << >>
             reordered == IF Len(pts) > 2
                          THEN <<pts[1]>>
                               \o [k \in 1..Len(waypointOrder) |-> pts[waypointOrder[k] + 1]]
                               \o <<pts[Len(pts)]>>
                          ELSE <<pts[1], pts[2]>>
         IN IF ~hasRoute THEN Rejected("TypeError")
            ELSE Resolved([waypoints |-> reordered, waypointsOrder |-> Arr(waypointOrder),
                           distance |-> IF Has(route, "legs")
                                        THEN Num(SumLegs(route.legs, "distance")) ELSE Null,
                           duration |-> IF Has(route, "legs")
                                        THEN Num(SumLegs(route.legs, "duration")) ELSE Null,
                           provider |-> "google"])

\* the Google branch after its await
RouteGoogle(resp, pts) ==
    IF resp.fetch # "ok" THEN Rejected(resp.fetch)
    ELSE IF resp.data.status # "OK" THEN Rejected("Google Directions error")
    ELSE LET hasRoute == Has(resp.data, "routes") /\ Len(resp.data.routes) > 0
             route == resp.data.routes[1]
             waypointOrder == IF hasRoute /\ Has(route, "waypoint_order")
                              THEN route.waypoint_order ELSE << >>
             reordered == IF Len(pts) > 2
                          THEN <<pts[1]>>
                               \o [k \in 1..Len(waypointOrder) |-> pts[1 + waypointOrder[k] + 1]]
                               \o <<pts[Len(pts)]>>
                          ELSE <<pts[1], pts[2]>>
         IN IF ~hasRoute THEN Rejected("TypeError")
            ELSE Resolved([waypoints |-> reordered, waypointsOrder |-> Arr(waypointOrder),
                           distance |-> IF Has(route, "legs")
                                        THEN Num(SumLegs(route.legs, "distance")) ELSE Null,
                           duration |-> IF Has(route, "legs")
                                        THEN Num(SumLegs(route.legs, "duration")) ELSE Null,
                           provider |-> "google"])

\* waypoints.slice().sort((a, b) => a.waypoint_index - b.waypoint_index): stable
RECURSIVE SortByWaypointIndex(_)
SortByWaypointIndex(ws) ==
    IF Len(ws) <= 1 THEN ws
    ELSE LET sorted == SortByWaypointIndex(SubSeq(ws, 1, Len(ws) - 1))
             w == ws[Len(ws)]
             before == Cardinality({k \in 1..Len(sorted) :
                                       sorted[k].waypoint_index <= w.waypoint_index})
         IN SubSeq(sorted, 1, before) \o <<w>> \o SubSeq(sorted, before + 1, Len(sorted))

\* the OSRM branch after its await: the points are rebuilt from the response's
\* waypoint locations
RouteOsrm(resp, pts) ==
    IF resp.fetch # "ok" THEN Rejected(resp.fetch)
    ELSE IF Has(resp.data, "code") /\ resp.data.code # "Ok" THEN Rejected("OSRM trip error")
    ELSE LET hasTrip == Has(resp.data, "trips") /\ Len(resp.data.trips) > 0
             trip == resp.data.trips[1]
             orderedPts ==
                 IF hasTrip /\ Has(trip, "legs")
                 THEN IF Has(resp.data, "waypoints") /\ Len(resp.data.waypoints) = Len(pts)
                      THEN LET sorted == SortByWaypointIndex(resp.data.waypoints) IN
                           [k \in 1..Len(sorted) |->
                               [lat |-> Number(sorted[k].location[2]),
                                lng |-> Number(sorted[k].location[1])]]
                      ELSE pts
                 ELSE pts
         IN Resolved([waypoints |-> orderedPts, waypointsOrder |-> Null,
                      distance |-> IF hasTrip THEN trip.distance ELSE Null,
                      duration |-> IF hasTrip THEN trip.duration ELSE Null,
                      provider |-> "osrm"])

\* a faulty inner loop: it compares with d <= bestD, so of the unvisited
\* indices at the least distance the last one wins
RECURSIVE ScanNearestLastOnTie(_, _, _, _, _, _)
ScanNearestLastOnTie(pts, visited, last, j, best, bestD) ==
    IF j >= Len(pts) THEN best
    ELSE IF /\ j \notin visited
            /\ ~HaversineIsNaN(last, pts[j + 1])
            /\ (best = -1 \/ _haversine(last, pts[j + 1]) <= bestD)
         THEN ScanNearestLastOnTie(pts, visited, last, j + 1, j, _haversine(last, pts[j + 1]))
         ELSE ScanNearestLastOnTie(pts, visited, last, j + 1, best, bestD)

\* the inner loop of the nearest-neighbour fallback, for j = 0..n-1: the first
\* unvisited index at the least distance from last; best = -1 is bestD = Infinity.
\* d < bestD is false when d is NaN, so such an index is never taken.
RECURSIVE ScanNearest(_, _, _, _, _, _)
ScanNearest(pts, visited, last, j, best, bestD) ==
    IF j >= Len(pts) THEN best
    ELSE IF /\ j \notin visited
            /\ ~HaversineIsNaN(last, pts[j + 1])
            /\ (best = -1 \/ _haversine(last, pts[j + 1]) < bestD)
         THEN ScanNearest(pts, visited, last, j + 1, j, _haversine(last, pts[j + 1]))
         ELSE ScanNearest(pts, visited, last, j + 1, best, bestD)

\* the outer loop, for k = 1..n-1
RECURSIVE NaiveLoop(_, _, _, _)
NaiveLoop(pts, naiveOrder, visited, k) ==
    IF k >= Len(pts) THEN naiveOrder
    ELSE LET last == pts[naiveOrder[Len(naiveOrder)] + 1]
             best == ScanNearest(pts, visited, last, 0, -1, 0)
         IN IF best = -1 THEN naiveOrder
            ELSE NaiveLoop(pts, Append(naiveOrder, best), visited \cup {best}, k + 1)

NaiveOrder(pts) == NaiveLoop(pts, <<0>>, {0}, 1)

\* a faulty return: the nearest-neighbour route goes out under the tag of the
\* provider that was tried last
NaiveRouteTaggedOsrm(pts) ==
    [waypoints |-> [k \in 1..Len(NaiveOrder(pts)) |-> pts[NaiveOrder(pts)[k] + 1]],
     waypointsOrder |-> Arr(NaiveOrder(pts)),
     distance |-> Null, duration |-> Null, provider |-> "osrm"]

\* the return of the nearest-neighbour path
NaiveRoute(pts) ==
    [waypoints |-> [k \in 1..Len(NaiveOrder(pts)) |-> pts[NaiveOrder(pts)[k] + 1]],
     waypointsOrder |-> Arr(NaiveOrder(pts)),
     distance |-> Null, duration |-> Null, provider |-> "naive-haversine"]

\* a faulty start: OpenRouteService, when it is the provider to use, is treated
\* as a provider that failed, and the call rejects
RouteStartOrsFails ==
    /\ pc = "start" /\ op = "optimizeRoute"
    /\ IF TooFew(points)
       THEN /\ result' = Rejected("points must be an array with at least two entries")
            /\ pc' = "done"
            /\ UNCHANGED trace
       ELSE IF AnyInvalid(points)
       THEN /\ result' = Rejected("invalid point")
            /\ pc' = "done"
            /\ UNCHANGED trace
       ELSE IF UsesGoogle(options)
       THEN /\ trace' = Append(trace, Request("google", "directions", "none"))
            /\ pc' = "google"
            /\ UNCHANGED result
       ELSE IF UsesOrs(options)
       THEN /\ result' = Rejected("OpenRouteService cannot optimize a route")
            /\ pc' = "done"
            /\ UNCHANGED trace
       ELSE IF UsesOsrm(options)
       THEN /\ trace' = Append(trace, Request("osrm", "trip", Profile(options)))
            /\ pc' = "osrm"
            /\ UNCHANGED result
       ELSE /\ result' = Resolved(NaiveRoute(Pts))
            /\ pc' = "done"
            /\ UNCHANGED trace
    /\ UNCHANGED <<op, points, options, response, peer>>

\* optimizeRoute up to its first await: no branch asks OpenRouteService
RouteStart ==
    /\ pc = "start" /\ op = "optimizeRoute"
    /\ IF TooFew(points)
       THEN /\ result' = Rejected("points must be an array with at least two entries")
            /\ pc' = "done"
            /\ UNCHANGED trace
       ELSE IF AnyInvalid(points)
       THEN /\ result' = Rejected("invalid point")
            /\ pc' = "done"
            /\ UNCHANGED trace
       ELSE IF UsesGoogle(options)
       THEN /\ trace' = Append(trace, Request("google", "directions", "none"))
            /\ pc' = "google"
            /\ UNCHANGED result
       ELSE IF UsesOsrm(options)
       THEN /\ trace' = Append(trace, Request("osrm", "trip", Profile(options)))
            /\ pc' = "osrm"
            /\ UNCHANGED result
       ELSE /\ result' = Resolved(NaiveRoute(Pts))
            /\ pc' = "done"
            /\ UNCHANGED trace
    /\ UNCHANGED <<op, points, options, response, peer>>

RouteGoogleResponse ==
    /\ pc = "google" /\ op = "optimizeRoute"
    /\ \E resp \in GoogleDirectionsResponses(Pts) :
         /\ response' = resp
         /\ result' = RouteGoogle(resp, Pts)
         /\ trace' = Append(trace, Outcome("google", RouteGoogle(resp, Pts).status = "rejected", TRUE))
    /\ pc' = "done"
    /\ UNCHANGED <<op, points, options, peer>>

RouteOsrmResponse ==
    /\ pc = "osrm" /\ op = "optimizeRoute"
    /\ \E resp \in OsrmTripResponses(Pts, Roundtrip(options)) :
         /\ response' = resp
         /\ result' = RouteOsrm(resp, Pts)
         /\ trace' = Append(trace, Outcome("osrm", RouteOsrm(resp, Pts).status = "rejected",
                                           resp.fetch = "ok" /\ Has(resp.data, "trips")))
    /\ pc' = "done"
    /\ UNCHANGED <<op, points, options, peer>>

-----------------------------------------------------------------------------
(* The calls the model makes *)

MaxPoints == 3

\* three points a degree apart, in two of the accepted encodings, and one point
\* whose latitude is not numeric
PointArgs ==
    { LatLng(Num(0), Num(0)), Pair(Num(0), Num(1)), LatLng(Num(1), Num(0)),
      LatLng(Str("north"), Num(0)) }

PointLists == UNION { [1..n -> PointArgs] : n \in 0..MaxPoints }

ProviderArgs ==
    { Undefined, Str("auto"), Str("google"), Str("ors"), Str("openrouteservice"), Str("osrm") }
KeyArgs == { Undefined, Str("key") }
ProfileArgs == { Undefined, Str("walking") }
RoundtripArgs == { Undefined, Bool(TRUE), Bool(FALSE) }

\* options.roundtrip is read by optimizeRoute only
OptionArgs(o) ==
    [ provider : ProviderArgs, googleApiKey : KeyArgs, openRouteServiceApiKey : KeyArgs,
      profile : ProfileArgs,
      roundtrip : IF o = "optimizeRoute" THEN RoundtripArgs ELSE {Undefined} ]

Operations == CalcOps \cup {"getDistanceMatrix", "optimizeRoute"}

Init ==
    /\ op \in Operations
    /\ points \in IF op \in CalcOps THEN [1..2 -> PointArgs] ELSE PointLists
    /\ options \in OptionArgs(op)
    /\ pc = "start"
    /\ trace = << >>
    /\ response = Undefined
    /\ result = Pending
    /\ peer = Undefined

Next ==
    \/ CalcStart
    \/ CalcGoogleResponse
    \/ CalcOrsResponse
    \/ CalcOrsRetryResponse
    \/ CalcOsrmResponse
    \/ MatrixStart
    \/ MatrixGoogleResponse
    \/ MatrixOrsResponse
    \/ MatrixOsrmResponse
    \/ RouteStart
    \/ RouteGoogleResponse
    \/ RouteOsrmResponse

Spec == Init /\ [][Next]_vars

\* A provider need not answer: the code runs a call up to its first fetch, and
\* from there the call advances only when the fetch settles.
LiveSpec ==
    /\ Init /\ [][Next]_vars
    /\ WF_vars(CalcStart) /\ WF_vars(MatrixStart) /\ WF_vars(RouteStart)

-----------------------------------------------------------------------------
(* Calls on arguments of every shape: the three encodings of a point, a      *)
(* latitude off the globe, a points argument that is no array, and an        *)
(* AbortSignal among the options, which the caller may abort while the call  *)
(* is under way.                                                             *)

MaxEncodedPoints == 2

EncodedPointArgs ==
    { LatLng(Num(0), Num(0)), Geo(Num(0), Num(0)), Pair(Num(0), Num(1)), Geo(Num(0), Num(1)),
      LatLng(Num(91), Num(0)), LatLng(Str("north"), Num(0)) }

EncodedPointLists == UNION { [1..n -> EncodedPointArgs] : n \in 0..MaxEncodedPoints }
ArrayLikeArgs == { ArrayLike(<<LatLng(Num(0), Num(0)), Pair(Num(0), Num(1))>>) }

AbortSignal(aborted) == [t |-> "object", aborted |-> aborted]
SignalArgs == { Undefined, AbortSignal(FALSE), AbortSignal(TRUE) }

SignalOptionArgs ==
    [ provider : {Undefined, Str("google")}, googleApiKey : KeyArgs,
      openRouteServiceApiKey : KeyArgs,
      profile : {Undefined}, roundtrip : {Undefined}, signal : SignalArgs ]

ArgInit ==
    /\ op \in Operations
    /\ points \in IF op \in CalcOps THEN [1..2 -> EncodedPointArgs]
                  ELSE EncodedPointLists \cup ArrayLikeArgs
    /\ options \in SignalOptionArgs
    /\ pc = "start"
    /\ trace = << >>
    /\ response = Undefined
    /\ result = Pending
    /\ peer = Undefined

\* the caller aborts the signal it passed, at any moment before the call settles
Abort ==
    /\ pc # "done"
    /\ options.signal # Undefined /\ ~options.signal.aborted
    /\ options' = [options EXCEPT !.signal.aborted = TRUE]
    /\ UNCHANGED <<op, points, pc, trace, response, result, peer>>

ArgNext == Next \/ Abort

ArgSpec == ArgInit /\ [][ArgNext]_vars

-----------------------------------------------------------------------------
(* optimizeRoute on its nearest-neighbour path: the options leave no provider *)
(* to ask, and the points include one with an infinite latitude, which        *)
(* Number.isNaN in _validatePoint lets through.                               *)

NaivePointArgs ==
    { LatLng(Num(0), Num(0)), Pair(Num(0), Num(1)), LatLng(Num(1), Num(0)),
      LatLng(Num(91), Num(0)), LatLng(Infinity, Num(0)) }

NaivePointLists == UNION { [1..n -> NaivePointArgs] : n \in 0..MaxPoints }

NaiveOptionArgs ==
    [ provider : {Str("ors"), Str("openrouteservice"), Str("google")},
      googleApiKey : {Undefined}, openRouteServiceApiKey : KeyArgs,
      profile : {Undefined}, roundtrip : {Undefined} ]

NaiveInit ==
    /\ op = "optimizeRoute"
    /\ points \in NaivePointLists
    /\ options \in NaiveOptionArgs
    /\ pc = "start"
    /\ trace = << >>
    /\ response = Undefined
    /\ result = Pending
    /\ peer = Undefined

NaiveSpec == NaiveInit /\ [][RouteStart]_vars

-----------------------------------------------------------------------------
(* optimizeRoute on lists long enough for a provider to reorder the stops    *)
(* between the first and the last                                            *)

MaxStops == 4

StopArgs == { LatLng(Num(0), Num(0)), Pair(Num(0), Num(1)), LatLng(Num(1), Num(0)) }

StopLists == UNION { [1..n -> StopArgs] : n \in 0..MaxStops }

StopOptionArgs ==
    [ provider : {Undefined, Str("google")}, googleApiKey : KeyArgs,
      openRouteServiceApiKey : {Undefined},
      profile : {Undefined}, roundtrip : {Undefined, Bool(TRUE)} ]

StopInit ==
    /\ op = "optimizeRoute"
    /\ points \in StopLists
    /\ options \in StopOptionArgs
    /\ pc = "start"
    /\ trace = << >>
    /\ response = Undefined
    /\ result = Pending
    /\ peer = Undefined

StopNext ==
    \/ RouteStart
    \/ RouteGoogleResponse
    \/ RouteOsrmResponse

StopSpec == StopInit /\ [][StopNext]_vars

-----------------------------------------------------------------------------
(* Two calls under way at once.  JavaScript runs one continuation at a time: *)
(* the call in op, points, ..., result is the one whose code runs next, the  *)
(* other is suspended in peer, and the event loop may turn to it between any *)
(* two continuations.                                                        *)

\* the call whose code runs next, as a value
Call ==
    [op |-> op, points |-> points, options |-> options, pc |-> pc,
     trace |-> trace, response |-> response, result |-> result]

ConcurrentPointLists ==
    { <<LatLng(Num(0), Num(0)), Pair(Num(0), Num(1))>>,
      <<Pair(Num(0), Num(1)), LatLng(Num(1), Num(0))>> }

ConcurrentOptionArgs ==
    [ provider : {Undefined}, googleApiKey : KeyArgs, openRouteServiceApiKey : KeyArgs,
      profile : {Undefined}, roundtrip : {Undefined} ]

ConcurrentCalls ==
    [ op : Operations, points : ConcurrentPointLists, options : ConcurrentOptionArgs,
      pc : {"start"}, trace : {<< >>}, response : {Undefined}, result : {Pending} ]

ConcurrentInit ==
    /\ op \in Operations
    /\ points \in ConcurrentPointLists
    /\ options \in ConcurrentOptionArgs
    /\ pc = "start"
    /\ trace = << >>
    /\ response = Undefined
    /\ result = Pending
    /\ peer \in ConcurrentCalls

\* the event loop turns to the other call
Switch ==
    /\ peer # Undefined
    /\ peer' = Call
    /\ op' = peer.op
    /\ points' = peer.points
    /\ options' = peer.options
    /\ pc' = peer.pc
    /\ trace' = peer.trace
    /\ response' = peer.response
    /\ result' = peer.result

ConcurrentNext == Next \/ Switch

ConcurrentSpec == ConcurrentInit /\ [][ConcurrentNext]_vars

-----------------------------------------------------------------------------
(* Properties *)

Done == pc = "done"
ValidPair == ~_validatePoint(points[1]).threw /\ ~_validatePoint(points[2]).threw
ValidList == IsArray(points) /\ Len(points) >= 2 /\ ~AnyInvalid(points)

RequestedAt(i, provider) == trace[i].ev = "request" /\ trace[i].provider = provider
Requested(provider) == \E i \in 1..Len(trace) : RequestedAt(i, provider)
Succeeded(provider) == \E i \in 1..Len(trace) : trace[i] = Success(provider)
NoSuccess == \A i \in 1..Len(trace) : trace[i].ev # "success"

\* the documented provider chain of a call: with 'auto', every provider that
\* has its credential and supports the operation, in the order Google,
\* OpenRouteService, OSRM; with a named provider, that provider alone
InChain(provider) ==
    CASE provider = "google" -> UsesGoogle(options)
      [] provider = "ors" -> UsesOrs(options) /\ op # "optimizeRoute"
      [] provider = "osrm" -> UsesOsrm(options)
Chain == SelectSeq(<<"google", "ors", "osrm">>, InChain)
Rank(provider) == CHOOSE k \in 1..3 : <<"google", "ors", "osrm">>[k] = provider
HasNext(provider) == \E k \in 1..(Len(Chain) - 1) : Chain[k] = provider
NextInChain(provider) == Chain[(CHOOSE k \in 1..(Len(Chain) - 1) : Chain[k] = provider) + 1]

\* C1: calculateDistance, provider 'auto', both credentials present: when the
\* first provider of the chain (Google) has failed, the call asks the next
\* provider (OpenRouteService) before it settles, and when that provider
\* succeeds the call resolves with its distance, not with the Haversine value.
C1_NextProviderAnswers ==
    ( /\ op = "calculateDistance" /\ Done
      /\ Provider(options) = "auto"
      /\ Truthy(options.googleApiKey) /\ Truthy(options.openRouteServiceApiKey)
      /\ \E i \in 1..Len(trace) : trace[i] = Failure("google") )
    => /\ Requested("ors")
       /\ Succeeded("ors") =>
            /\ result.status = "resolved"
            /\ result.value.distance = Num(RoadDistance(PointA, PointB))

\* C2: calculateDistance on two valid points: when every provider the call
\* contacted has failed, the call resolves, never rejects, with the Haversine
\* distance of the pair and no duration.
C2_AllFailGivesHaversine ==
    (op = "calculateDistance" /\ Done /\ ValidPair /\ NoSuccess)
    => /\ result.status = "resolved"
       /\ result.value.distance \in { Num(_haversine(PointA, PointB)),
                                      Num(MathRound(_haversine(PointA, PointB))) }
       /\ Field(result.value, "duration") = Undefined

\* C3: within one call the providers are requested strictly in chain order: a
\* later request never goes to an earlier provider, no request follows a
\* success, and the failure of a provider that has a successor in the chain is
\* followed by a request to that successor.
C3_ChainOrder ==
    (op \in {"calculateDistance", "getDistanceMatrix", "optimizeRoute"} /\ Done) =>
      /\ \A i, j \in 1..Len(trace) :
           (i < j /\ trace[i].ev = "request" /\ trace[j].ev = "request")
           => Rank(trace[i].provider) <= Rank(trace[j].provider)
      /\ \A i, j \in 1..Len(trace) :
           (i < j /\ trace[i].ev = "success") => trace[j].ev # "request"
      /\ \A i \in 1..Len(trace) :
           (trace[i].ev = "failure" /\ HasNext(trace[i].provider))
           => \E j \in (i + 1)..Len(trace) : RequestedAt(j, NextInChain(trace[i].provider))

\* C4: optimizeRoute on at least two valid points resolves for every provider
\* outcome, and with the nearest-neighbour route when no provider produced one;
\* it rejects only on invalid input.
C4_RouteAlwaysResolves ==
    (op = "optimizeRoute" /\ Done /\ ValidList)
    => /\ result.status = "resolved"
       /\ NoSuccess => result.value = NaiveRoute(Pts)

\* C5: getDistanceMatrix rejects only when its input is invalid (fewer than two
\* points, or an invalid point); no provider failure makes it reject.
C5_MatrixRejectsOnlyInvalid ==
    (op = "getDistanceMatrix" /\ Done /\ result.status = "rejected") => ~ValidList

\* the matrix a resolved getDistanceMatrix call returned, and its shape
MatrixResolved == op = "getDistanceMatrix" /\ result.status = "resolved"
Distances == result.value.distances
IsSquare(m, n) ==
    /\ m.t = "array" /\ Len(m.items) = n
    /\ \A i \in 1..n : Len(m.items[i]) = n
\* the call returned from its Haversine fallback: it contacted no provider
OnFallback == trace = << >>
\* what the provider's response says of the pair (r, c): Google's element, null
\* when its status is not OK; the cell of the distances of ORS and OSRM
ProviderCell(r, c) ==
    IF trace[1].provider = "google"
    THEN LET elem == response.data.rows[r].elements[c] IN
         IF elem.status = "OK" THEN elem.distance.value ELSE Null
    ELSE response.data.distances.items[r][c]

RouteResolved == op = "optimizeRoute" /\ result.status = "resolved"
Waypoints == result.value.waypoints
Count(seq, x) == Cardinality({ k \in 1..Len(seq) : seq[k] = x })
SameMultiset(a, b) ==
    /\ Len(a) = Len(b)
    /\ \A k \in 1..Len(a) : Count(a, a[k]) = Count(b, a[k])

\* C8: for every provider outcome the waypoints optimizeRoute returns are a
\* permutation of the input points: the same multiset of coordinate values.
C8_WaypointsPermutation ==
    RouteResolved => SameMultiset(Waypoints, Pts)

\* C9: when roundtrip is false or omitted, the first returned waypoint equals
\* the first input point, for every provider outcome.
C9_FirstStaysFirst ==
    (RouteResolved /\ ~Roundtrip(options)) => Waypoints[1] = Pts[1]

\* C10: whenever the returned Route carries a waypointsOrder, it has the
\* length of waypoints and waypoints[k] = points[waypointsOrder[k]] for all k.
C10_OrderIndexesWaypoints ==
    (RouteResolved /\ result.value.waypointsOrder # Null) =>
      LET order == result.value.waypointsOrder.items IN
      /\ Len(order) = Len(Waypoints)
      /\ \A k \in 1..Len(order) :
           /\ order[k] \in 0..(Len(points) - 1)
           /\ Waypoints[k] = Pts[order[k] + 1]

\* a point the data model does not admit: its coordinates do not coerce to
\* numbers, or its latitude lies outside [-90,90], or its longitude outside
\* [-180,180]
Unacceptable(p) ==
    LET pt == _toPoint(p) IN
    \/ pt = Null
    \/ pt.lat = NaN \/ pt.lng = NaN
    \/ pt.lat.v < -90 \/ pt.lat.v > 90
    \/ pt.lng.v < -180 \/ pt.lng.v > 180
AnyUnacceptable == IsArray(points) /\ \E i \in 1..Len(points) : Unacceptable(points[i])

\* C11: every public operation rejects a point whose coordinates coerce to NaN
\* or whose latitude lies outside [-90,90] or longitude outside [-180,180]: a
\* call that was given such a point issues no request and settles rejected.
C11_UnacceptablePointRejected ==
    (pc # "start" /\ AnyUnacceptable) => (trace = << >> /\ result.status = "rejected")

\* the coordinate values an argument point carries, and the three accepted
\* encodings of a pair of coordinate values
Coordinates(p) ==
    IF p.t = "array" THEN <<p.e0, p.e1>>
    ELSE IF p.lat # Undefined /\ p.lng # Undefined THEN <<p.lat, p.lng>>
    ELSE <<p.latitude, p.longitude>>
Encodings(c) == { Pair(c[1], c[2]), LatLng(c[1], c[2]), Geo(c[1], c[2]) }
EncodingNo(k, c) ==
    CASE k = 1 -> Pair(c[1], c[2]) [] k = 2 -> LatLng(c[1], c[2]) [] k = 3 -> Geo(c[1], c[2])
\* the argument lists that carry the coordinates of ps, point for point, each
\* point in any of the encodings
Recodings(ps) ==
    { [i \in 1..Len(ps) |-> EncodingNo(choice[i], Coordinates(ps[i]))] :
        choice \in [1..Len(ps) -> 1..3] }

\* how the call settles on the arguments ps, given the options of this call
\* and the response its provider gave
Replay(ps) ==
    IF op \in CalcOps
    THEN LET a == _validatePoint(ps[1])
             b == _validatePoint(ps[2])
         IN IF a.threw \/ b.threw THEN Settle(Rejected("invalid point"))
            ELSE IF UsesGoogle(options) THEN Settle(CalcGoogle(response))
            ELSE IF UsesOrs(options)
                 THEN IF response.fetch # "ok" THEN Settle(Rejected(response.fetch))
                      ELSE Settle(CalcOrs(response.data, a.pt, b.pt))
            ELSE IF UsesOsrm(options) THEN Settle(CalcOsrm(response, a.pt, b.pt))
            ELSE Settle(Resolved(HaversineResult(a.pt, b.pt)))
    ELSE LET pts == [i \in 1..Len(ps) |-> _validatePoint(ps[i]).pt] IN
         IF Len(ps) < 2
         THEN Rejected("points must be an array with at least two entries")
         ELSE IF \E i \in 1..Len(ps) : _validatePoint(ps[i]).threw
         THEN Rejected("invalid point")
         ELSE IF op = "getDistanceMatrix"
         THEN IF UsesGoogle(options) THEN MatrixGoogle(response)
              ELSE IF UsesOrs(options) THEN MatrixOrs(response)
              ELSE IF UsesOsrm(options) THEN MatrixOsrm(response)
              ELSE Resolved(HaversineMatrix(pts))
         ELSE IF UsesGoogle(options) THEN RouteGoogle(response, pts)
              ELSE IF UsesOsrm(options) THEN RouteOsrm(response, pts)
              ELSE Resolved(NaiveRoute(pts))

\* C12: the array pair [lat,lng], {lat,lng} and {latitude,longitude} of the
\* same coordinates normalize to the same canonical point (or are refused
\* alike), and a call settles the same way on every argument list that carries
\* the coordinates of its points, whichever encoding each point uses.
C12_EncodingsAgree ==
    IsArray(points) =>
      /\ \A i \in 1..Len(points) : \A e \in Encodings(Coordinates(points[i])) :
           _validatePoint(e) = _validatePoint(points[i])
      /\ Done => \A ps \in Recodings(points) : Replay(ps) = result

C12_Witness ==
    /\ MatrixResolved /\ OnFallback
    /\ points = <<Pair(Num(0), Num(1)), Geo(Num(0), Num(0))>>
    /\ Distances.items[1][2] = Num(MathRound(_haversine(Pts[1], Pts[2])))
    /\ Distances.items[1][2].v > 0

\* C13: getDistanceMatrix and optimizeRoute reject when points is not an array
\* or has fewer than two entries, and on any invalid input (a point the data
\* model does not admit among them) they reject before any outbound request is
\* issued.
C13_InvalidInputRejectedFirst ==
    ( /\ op \in {"getDistanceMatrix", "optimizeRoute"} /\ pc # "start"
      /\ (~IsArray(points) \/ Len(points) < 2 \/ AnyUnacceptable) )
    => (trace = << >> /\ result.status = "rejected")

\* the travel time that the response the call settled on supplies for the
\* pair, undefined when there is no response or it carries none
SuppliedTime ==
    IF trace = << >> \/ response.fetch # "ok" THEN Undefined
    ELSE CASE trace[1].provider = "google" ->
                IF /\ Has(response.data, "rows") /\ Len(response.data.rows) > 0
                   /\ Len(response.data.rows[1].elements) > 0
                   /\ Has(response.data.rows[1].elements[1], "duration")
                THEN response.data.rows[1].elements[1].duration.value ELSE Undefined
           [] trace[1].provider = "ors" ->
                IF Has(response.data, "durations")
                THEN response.data.durations.items[1][2] ELSE Undefined
           [] trace[1].provider = "osrm" ->
                IF OsrmGaveRoute(response)
                THEN response.data.routes[1].duration ELSE Undefined
\* the call returned from the Haversine fallback at the end of calculateDistance
CalcOnFallback == trace = << >> \/ (trace[1].provider = "osrm" /\ ~OsrmGaveRoute(response))

\* C14: a result of calculateDistance has a duration only when the response
\* that resolved it supplied a travel time, and then it is that travel time; a
\* result of the Haversine fallback has no duration, and getEstimatedTime
\* resolves with null for such a call (and otherwise with null or the
\* supplied travel time).
C14_DurationOnlyFromProvider ==
    /\ (op = "calculateDistance" /\ result.status = "resolved") =>
         /\ Field(result.value, "duration") # Undefined
              => Field(result.value, "duration") = SuppliedTime
         /\ CalcOnFallback => ~Has(result.value, "duration")
    /\ (op = "getEstimatedTime" /\ result.status = "resolved") =>
         /\ result.value # Null => result.value = SuppliedTime
         /\ CalcOnFallback => result.value = Null

C14_Witness ==
    /\ op = "getEstimatedTime" /\ result = Resolved(Null)
    /\ trace = <<Request("osrm", "route", "walking"), Failure("osrm")>>
    /\ response.fetch = "http"

NoCredentials == ~Truthy(options.googleApiKey) /\ ~Truthy(options.openRouteServiceApiKey)

\* C15: no operation issues a request to Google without googleApiKey or to
\* OpenRouteService without openRouteServiceApiKey, whatever the provider
\* option says; and with no credentials at all calculateDistance on two valid
\* points still resolves with a distance that is a number.
C15_NoCredentialNoRequest ==
    /\ \A i \in 1..Len(trace) :
         trace[i].ev = "request" =>
           /\ trace[i].provider = "google" => Truthy(options.googleApiKey)
           /\ trace[i].provider = "ors" => Truthy(options.openRouteServiceApiKey)
    /\ (op = "calculateDistance" /\ Done /\ ValidPair /\ NoCredentials) =>
         /\ result.status = "resolved"
         /\ result.value.distance.t = "number" /\ result.value.distance.v >= 0

C15_Witness ==
    /\ op = "calculateDistance" /\ Done /\ NoCredentials
    /\ options.provider = Str("google")
    /\ points = <<LatLng(Num(0), Num(0)), Pair(Num(0), Num(1))>>
    /\ trace = << >>
    /\ result = Resolved(HaversineResult(PointA, PointB))

\* C16: every outbound request that names a travel profile names the
\* caller's options.profile, and 'driving' when options.profile is omitted, in
\* calculateDistance, getDistanceMatrix and optimizeRoute alike.
C16_ProfileHonoured ==
    op \in {"calculateDistance", "getDistanceMatrix", "optimizeRoute"} =>
      \A i \in 1..Len(trace) :
        (trace[i].ev = "request" /\ trace[i].profile # "none") =>
          trace[i].profile = IF options.profile = Undefined THEN "driving"
                             ELSE options.profile.v

\* the requests of the call that have not settled yet
Events(kinds) == { i \in 1..Len(trace) : trace[i].ev \in kinds }
InFlight ==
    Cardinality(Events({"request"})) - Cardinality(Events({"failure", "nodata", "success"}))

\* C17: when the native matrix endpoint of getDistanceMatrix is not usable (its
\* request has failed), the call goes on to resolve the cells by pairwise
\* distance requests, and at every moment of the call the number of outbound
\* requests in flight stays within the fixed ceiling of the pool (8 at most),
\* whatever the number of points.
C17_PairwiseThroughPool ==
    op = "getDistanceMatrix" =>
      /\ InFlight <= 8
      /\ Done => \A i \in Events({"failure"}) :
                   \E j \in (i + 1)..Len(trace) : trace[j].ev = "request"

\* the caller passed a cancellation signal and has aborted it
Aborted == Has(options, "signal") /\ options.signal # Undefined /\ options.signal.aborted
Requests == Cardinality(Events({"request"}))

\* C18: once the caller's cancellation signal is aborted, no step of the call
\* requests a provider, and none resolves the call: neither with a provider's
\* answer nor with a Haversine or nearest-neighbour fallback.
C18_AbortStopsCall ==
    [][Aborted => (Requests' = Requests /\ result'.status # "resolved")]_vars

\* C19: every call of calculateDistance, getDistanceMatrix, optimizeRoute or
\* getEstimatedTime eventually settles, resolved or rejected, even when a
\* provider never responds: each request carries a timeout that ends it as a
\* provider failure.
C19_EventuallySettles == <>(result.status # "pending")

\* C20: _haversine(a, b) = _haversine(b, a) for all valid points a and b that
\* a call is given, and the matrix that getDistanceMatrix computes on its Haversine
\* fallback has distances[i][j] = distances[j][i] for all i, j.
C20_HaversineSymmetric ==
    /\ \A i, j \in 1..Len(points) :
         (pc = "start" /\ ~_validatePoint(points[i]).threw
                       /\ ~_validatePoint(points[j]).threw) =>
           _haversine(_validatePoint(points[i]).pt, _validatePoint(points[j]).pt)
             = _haversine(_validatePoint(points[j]).pt, _validatePoint(points[i]).pt)
    /\ (MatrixResolved /\ OnFallback) =>
         \A i, j \in 1..Len(points) : Distances.items[i][j] = Distances.items[j][i]

C20_Witness ==
    /\ MatrixResolved /\ OnFallback
    /\ points = <<Pair(Num(0), Num(1)), LatLng(Num(1), Num(0))>>
    /\ Distances.items[1][2] = Num(MathRound(_haversine(Pts[1], Pts[2])))
    /\ Distances.items[2][1] = Distances.items[1][2]
    /\ Distances.items[1][2].v > MathRound(_haversine(Pts[1], [lat |-> Num(0), lng |-> Num(0)]))

\* C21: every function of the module rejects when a provider request it
\* issued has failed, as it does on invalid input: a settled call whose trace
\* holds the failure of a request is a rejected call.
C21_ProviderFailureRejects ==
    (Done /\ Events({"failure"}) # {}) => result.status = "rejected"

OrsSelected == Provider(options) \in {"ors", "openrouteservice"}
OrsOnlyCredential ==
    /\ Provider(options) = "auto"
    /\ Truthy(options.openRouteServiceApiKey) /\ ~Truthy(options.googleApiKey)

OnNaivePath == RouteResolved /\ result.value.provider = "naive-haversine"
Order == result.value.waypointsOrder.items

\* C23: on the nearest-neighbour path with n points the returned
\* waypointsOrder starts with index 0 and holds every index of 0..n-1 exactly
\* once: the loop made n-1 selections.
C23_NaiveVisitsAll ==
    OnNaivePath =>
      /\ Order[1] = 0
      /\ Len(Order) = Len(points)
      /\ \A i \in 0..(Len(points) - 1) : Count(Order, i) = 1

\* the indices not yet chosen before the k-th selection, and the distance from
\* the point chosen last to index j
Unvisited(k) == (0..(Len(points) - 1)) \ { Order[m] : m \in 1..(k - 1) }
FromLast(k, j) == _haversine(Pts[Order[k - 1] + 1], Pts[j + 1])
Measurable(k, j) == ~HaversineIsNaN(Pts[Order[k - 1] + 1], Pts[j + 1])

\* C24: on the nearest-neighbour path each index after the first is an
\* unvisited index at the least Haversine distance from the point chosen
\* before it, and the lowest such index on a tie (no unvisited index is nearer,
\* no lower unvisited index is as near); so for [A,B,C] with
\* dist(A,B) < dist(A,C), B is visited before C.
C24_NearestLowestFirst ==
    OnNaivePath =>
      /\ \A k \in 2..Len(Order) :
           /\ Order[k] \in Unvisited(k)
           /\ Measurable(k, Order[k])
           /\ \A j \in Unvisited(k) : Measurable(k, j) =>
                /\ FromLast(k, Order[k]) <= FromLast(k, j)
                /\ j < Order[k] => FromLast(k, Order[k]) < FromLast(k, j)
      /\ ( /\ Len(points) = 3 /\ \A i \in 1..3 : IsFinite(Pts[i])
           /\ _haversine(Pts[1], Pts[2]) < _haversine(Pts[1], Pts[3]) )
         => Order = <<0, 1, 2>>

C24_Witness ==
    /\ OnNaivePath
    /\ points = <<LatLng(Num(0), Num(0)), LatLng(Num(91), Num(0)), Pair(Num(0), Num(1))>>
    /\ _haversine(Pts[1], Pts[3]) < _haversine(Pts[1], Pts[2])
    /\ Order = <<0, 2, 1>>
    /\ Waypoints = <<Pts[1], Pts[3], Pts[2]>>

\* the call resolved from the Google branch, and the waypoint_order of the
\* route it was given
OnGooglePath == RouteResolved /\ result.value.provider = "google"
GoogleOrder == response.data.routes[1].waypoint_order

\* C25: on the Google path with n > 2 points, when the response carries the
\* order of the n-2 waypoints between the ends, the returned waypoints are the
\* first point, then points[1 + order[k]] for each k in turn, then the last
\* point: n of them.
C25_InteriorOffsetSpliced ==
    (OnGooglePath /\ Len(points) > 2 /\ Len(GoogleOrder) = Len(points) - 2) =>
      LET n == Len(points) IN
      /\ Len(Waypoints) = n
      /\ Waypoints[1] = Pts[1]
      /\ Waypoints[n] = Pts[n]
      /\ \A k \in 1..(n - 2) : Waypoints[k + 1] = Pts[1 + GoogleOrder[k] + 1]

C25_Witness ==
    /\ OnGooglePath
    /\ points = <<LatLng(Num(0), Num(0)), Pair(Num(0), Num(1)), LatLng(Num(1), Num(0)),
                  LatLng(Num(0), Num(0))>>
    /\ GoogleOrder = <<1, 0>>
    /\ Waypoints = <<Pts[1], Pts[3], Pts[2], Pts[4]>>

\* the call resolved from the OSRM branch on a response that carries a trip
OnOsrmTrip ==
    /\ RouteResolved /\ result.value.provider = "osrm"
    /\ Has(response.data, "trips") /\ Has(response.data, "waypoints")

\* C26: on the OSRM path the entries of the response's waypoints are sorted by
\* waypoint_index and each is mapped back to the caller's point: the k-th
\* returned waypoint is the input point that the response places at position
\* k-1 of the trip, so every returned waypoint is one of the input points and
\* none is a coordinate taken from the response.
C26_OsrmMapsBackToInput ==
    OnOsrmTrip =>
      \A k \in 1..Len(Waypoints) :
        /\ \E i \in 1..Len(Pts) : Waypoints[k] = Pts[i]
        /\ \A i \in 1..Len(Pts) :
             response.data.waypoints[i].waypoint_index = k - 1 => Waypoints[k] = Pts[i]

\* the response the call awaited last is one its branch accepts: a body, with
\* status "OK" and a route for Google, without an error code for OSRM
GoogleAnswered ==
    /\ trace # << >> /\ trace[1] = Request("google", "directions", "none")
    /\ response # Undefined /\ response.fetch = "ok"
    /\ response.data.status = "OK"
    /\ Has(response.data, "routes") /\ Len(response.data.routes) > 0
OsrmAnswered ==
    /\ trace # << >> /\ trace[1] = Request("osrm", "trip", Profile(options))
    /\ response # Undefined /\ response.fetch = "ok"
    /\ ~(Has(response.data, "code") /\ response.data.code # "Ok")

C28_CallsIndependent ==
    /\ [](Done => result = Replay(points))
    /\ [][ IF peer' = peer
           THEN op' = op /\ points' = points /\ options' = options
           ELSE peer' = Call /\ Call' = peer ]_vars

C28_Witness ==
    /\ peer # Undefined
    /\ op = "getDistanceMatrix" /\ Done /\ result.status = "resolved"
    /\ trace = <<Request("osrm", "table", "driving"), Success("osrm")>>
    /\ peer.op = "calculateDistance" /\ peer.pc = "orsRetry"
    /\ peer.points = points
    /\ result = Replay(points)

\* the provider that options.provider names, as the trace writes it, and
\* whether the call holds the key that provider needs
Named ==
    CASE Provider(options) = "google" -> "google"
      [] Provider(options) \in {"ors", "openrouteservice"} -> "ors"
      [] Provider(options) = "osrm" -> "osrm"
      [] OTHER -> "none"
NamedKeyAbsent ==
    \/ Named = "google" /\ ~Truthy(options.googleApiKey)
    \/ Named = "ors" /\ ~Truthy(options.openRouteServiceApiKey)

\* C29: when options.provider names one provider, calculateDistance sends
\* requests to that provider only, whatever other credentials are present; and
\* when the named provider needs a key that is absent, the call on two valid
\* points makes no request at all and resolves with the rounded Haversine
\* distance.
C29_NamedProviderOnly ==
    (op = "calculateDistance" /\ Named # "none") =>
      /\ \A i \in 1..Len(trace) : trace[i].provider = Named
      /\ (pc # "start" /\ ValidPair /\ NamedKeyAbsent) =>
           /\ trace = << >>
           /\ result = Resolved(HaversineResult(PointA, PointB))

C29_Witness ==
    /\ op = "calculateDistance" /\ Done
    /\ options.provider = Str("ors")
    /\ Truthy(options.googleApiKey) /\ ~Truthy(options.openRouteServiceApiKey)
    /\ points = <<LatLng(Num(0), Num(0)), Pair(Num(0), Num(1))>>
    /\ trace = << >>
    /\ result.value.distance = Num(MathRound(_haversine(PointA, PointB)))
    /\ result.value.distance.v > 0

\* the positions in the trace at which OpenRouteService was requested
OrsRequests == { i \in 1..Len(trace) : RequestedAt(i, "ors") }

====
